---- MODULE Spec2Model ----
(***************************************************************************)
(* The schedule search of plastron (src/plastron/astar.py): the cost       *)
(* model calculate_weight and the best-first search optimize_schedule;     *)
(* and the ways into it: ScheduleGenerator (schedule_generator.py), its    *)
(* command line, and the handlers of api.py, with the hydration of the     *)
(* courses (course.py) that comes before the search.  The functions that  *)
(* stand alone (get_closest_term_id of scraper.py, Course.filter_sections, *)
(* calculate_weight on a pair of candidates) are applied to bounded        *)
(* arguments by a specification of their own.                              *)
(*                                                                         *)
(* Times are minutes since midnight.  Costs are integers in thousandths    *)
(* of a cost unit: the day weight 15 is 15000, the pruning margin 60 is    *)
(* 60000, and adjusted_gap(gap) ** 0.75 is tabulated, rounded to the       *)
(* nearest thousandth, for the gaps that are multiples of 10 minutes.      *)
(***************************************************************************)
EXTENDS Integers, Sequences, FiniteSets, TLC

VARIABLES
    courses,             \* the argument: courses[i] is the i-th course's .sections, a list of section ids
    top,                 \* the argument top
    queue,               \* the frontier heap, as the set of its entries
    results,             \* the results heap, as the set of its entries (cost, rc, result)
    visited,             \* the set of state ids already pushed
    best_complete_cost,  \* lowest cost of a popped complete state, Inf before the first
    counter,             \* next value of the frontier tie-break counter
    result_counter,      \* next value of the results tie-break counter
    returned,            \* the list optimize_schedule returns
    pc,                  \* "idle" before the call, "loop" while it runs, then "done", or "error" when it raised
    entry,               \* who calls: "engine" (optimize_schedule directly), "api", "cli", "sync"
    gpc,                 \* where the caller stands: "request", "rejected", "constructed", "hydrating",
                         \* "aborted", "raised", "ready", "searching", "returned"
    requested,           \* the number of course ids of the request
    tasks,               \* tasks[i]: the hydration of the i-th course: "pending", "done", "failed", "cancelled"
    hydrated,            \* ScheduleGenerator.hydrated
    course_hydrated,     \* course_hydrated[i]: the i-th Course's .hydrated
    site,                \* site[i]: what scraping and filtering the i-th course gives: Passed(list) or Failure
    args,                \* the arguments of a call of a function that stands alone
    outcome              \* what that call returned or raised; << >> before it

genvars == <<entry, gpc, requested, tasks, hydrated, course_hydrated, site>>

callvars == <<args, outcome>>

vars == <<courses, top, queue, results, visited, best_complete_cost,
          counter, result_counter, returned, pc, entry, gpc, requested, tasks, hydrated,
          course_hydrated, site, args, outcome>>

-----------------------------------------------------------------------------
(* Bounds of the checked inputs. *)

MaxCourses == 3

MaxSections == 2

MaxTop == 2

MaxRequested == 2

-----------------------------------------------------------------------------
(* Program constants. *)

DAY_WEIGHT == 15

PRUNE_MARGIN == 60

Inf == 1000000000

Milli(x) == x * 1000

-----------------------------------------------------------------------------
(* The domain model: Meeting and Section (src/plastron/section.py). *)

Meeting(days, start_time, end_time) ==
    [days |-> days, start_time |-> start_time, end_time |-> end_time]

\* A time field of a raw meeting that is the empty string.
NoTime == -1

\* A raw meeting as the scraper delivers it: the day codes as written,
\* and the times in minutes since midnight, or NoTime.
RawMeeting(days, start_time, end_time) ==
    [days |-> days, start_time |-> start_time, end_time |-> end_time]

\* The letters the class [A-Z] matches.
Capitals == {"A", "B", "C", "D", "E", "F", "G", "H", "I", "J", "K", "L", "M",
             "N", "O", "P", "Q", "R", "S", "T", "U", "V", "W", "X", "Y", "Z"}

\* The last position of the run of letters that are not capitals after i.
RECURSIVE RunEnd(_, _)
RunEnd(days_str, i) ==
    IF i < Len(days_str) /\ days_str[i + 1] \notin Capitals
    THEN RunEnd(days_str, i + 1) ELSE i

\* re.findall("[A-Z][^A-Z]*") from position i on.
RECURSIVE FindAll(_, _)
FindAll(days_str, i) ==
    IF i > Len(days_str) THEN << >>
    ELSE IF days_str[i] \in Capitals
         THEN << SubSeq(days_str, i, RunEnd(days_str, i)) >>
              \o FindAll(days_str, RunEnd(days_str, i) + 1)
         ELSE FindAll(days_str, i + 1)

\* expand_days (section.py lines 29-40): "MW" to ["M", "W"], "TuTh" to
\* ["Tu", "Th"], the empty string to [].
expand_days(days_str) == IF days_str = << >> THEN << >> ELSE FindAll(days_str, 1)

\* parse_time (section.py lines 16-27): None for the empty string, else the
\* time of day; raw times are written here as the minute of the day they name.
parse_time(time_str) == IF time_str = NoTime THEN NoTime ELSE time_str

\* A sequence of characters as one string.
RECURSIVE Join(_)
Join(chars) == IF chars = << >> THEN "" ELSE Head(chars) \o Join(Tail(chars))

\* Section.process_meetings (section.py lines 96-113): one Meeting per day
\* code of each raw meeting, all with that raw meeting's times.
RECURSIVE process_meetings(_)
process_meetings(meetings) ==
    IF meetings = << >> THEN << >>
    ELSE LET meeting == Head(meetings)
             days    == expand_days(meeting.days)
         IN  [i \in DOMAIN days |->
                  Meeting(Join(days[i]), parse_time(meeting.start_time), parse_time(meeting.end_time))]
             \o process_meetings(Tail(meetings))

\* Section.meetings of the sections the inputs are drawn from, by section_id.
\* The first four are the sections of src/tests/test_astar.py.
SectionMeetings(section_id) ==
    CASE section_id = "MockCourse1-10AM"   -> << Meeting("M", 600, 650) >>
      [] section_id = "MockCourse1-2PM"    -> << Meeting("M", 840, 890) >>
      [] section_id = "MockCourse2-11AM"   -> << Meeting("M", 660, 710) >>
      [] section_id = "MockCourse2-4PM"    -> << Meeting("M", 960, 1010) >>
      [] section_id = "MockCourse1-SPLIT"  -> << Meeting("M", 480, 530), Meeting("M", 1140, 1190) >>
      [] section_id = "MockCourse1-TU"     -> << Meeting("Tu", 600, 650) >>
      [] section_id = "MockCourse2-ONLINE" -> << >>
      [] section_id = "MockCourse3-LONG"   -> << Meeting("M", 530, 1140) >>
      [] section_id = "MockCourse3-MTH"    -> << Meeting("M", 1010, 1060), Meeting("Th", 650, 740) >>
      [] section_id = "MockCourse4-F"      -> << Meeting("F", 600, 650) >>
      [] section_id = "MockCourse1-MTWTH"  -> << Meeting("M", 600, 650), Meeting("Tu", 600, 650),
                                                  Meeting("W", 600, 650), Meeting("Th", 600, 650) >>
      [] section_id = "MockCourse2-1110AM" -> << Meeting("M", 670, 720) >>
      [] section_id = "MockCourse2-1120AM" -> << Meeting("M", 680, 730) >>
      [] section_id = "MockCourse2-1130AM" -> << Meeting("M", 690, 740) >>
      [] section_id = "MockCourse2-1140AM" -> << Meeting("M", 700, 750) >>
      [] section_id = "MockCourse2-1150AM" -> << Meeting("M", 710, 760) >>
      [] section_id = "MockCourse2-12PM"   -> << Meeting("M", 720, 770) >>
      [] section_id = "MockCourse2-1210PM" -> << Meeting("M", 730, 780) >>
      [] section_id = "MockCourse2-1220PM" -> << Meeting("M", 740, 790) >>
      [] section_id = "MockCourse2-1230PM" -> << Meeting("M", 750, 800) >>
      [] section_id = "MockCourse2-ASYNC"  -> process_meetings(<< RawMeeting(<< >>, NoTime, NoTime) >>)
      [] section_id = "MockCourse2-NOTIME" -> process_meetings(<< RawMeeting(<<"M">>, NoTime, NoTime) >>)
      [] section_id = "MockCourse2-TBA"    ->
             process_meetings(<< RawMeeting(<<"T", "B", "A">>, NoTime, NoTime) >>)
      [] section_id = "MockCourse2-LABTBA" ->
             process_meetings(<< RawMeeting(<<"T", "u">>, 600, 650),
                                 RawMeeting(<<"W">>, NoTime, NoTime) >>)

\* The sections a course in position i (1-based) may list, in the order
\* they are offered.
Offered(i) ==
    CASE i = 1 -> << "MockCourse1-10AM", "MockCourse1-2PM", "MockCourse1-SPLIT", "MockCourse1-TU" >>
      [] i = 2 -> << "MockCourse2-11AM", "MockCourse2-4PM", "MockCourse1-10AM", "MockCourse2-ONLINE" >>
      [] i = 3 -> << "MockCourse3-LONG", "MockCourse3-MTH" >>
      [] OTHER -> << "MockCourse4-F" >>

\* The elements of list at the positions I, in the order of the list.
RECURSIVE Pick(_, _)
Pick(list, I) ==
    IF I = {} THEN << >>
    ELSE LET k == CHOOSE x \in I : \A y \in I : x <= y
         IN  << list[k] >> \o Pick(list, I \ {k})

\* Every candidate list of a course in position i: up to MaxSections of the
\* offered sections in the order they are offered, or one section listed twice.
SectionLists(i) ==
    { Pick(Offered(i), I) :
          I \in { J \in SUBSET DOMAIN Offered(i) : Cardinality(J) <= MaxSections } }
    \cup { << Offered(i)[k], Offered(i)[k] >> : k \in DOMAIN Offered(i) }

\* One course whose only section has no meetings.
SingleOnline == { << << "MockCourse2-ONLINE" >> >> }

\* Two courses for which a child costs exactly the best complete cost plus
\* the margin: four days without gaps against a schedule without meetings.
AtTheBound ==
    { << << "MockCourse2-ONLINE", "MockCourse1-MTWTH" >>, << "MockCourse2-ONLINE" >> >> }

\* Every list of n courses.
RECURSIVE CourseLists(_)
CourseLists(n) ==
    IF n = 0 THEN { << >> }
    ELSE { Append(cs, l) : cs \in CourseLists(n - 1), l \in SectionLists(n) }

-----------------------------------------------------------------------------
(* The cost model (astar.py, adjusted_gap and calculate_weight). *)

\* round(1000 * adjusted_gap(gap) ** 0.75) for gap = 10, 20, ..., 720
GapCostTable ==
   << 5981, 10864, 16596, 22633, 26750, 27752, 27333, 27761,
      29429, 31650, 33968, 36257, 38500, 40700, 42862, 44987,
      47080, 49142, 51176, 53183, 55165, 57124, 59060, 60976,
      62872, 64749, 66607, 68449, 70275, 72084, 73879, 75659,
      77426, 79179, 80919, 82647, 84363, 86067, 87760, 89443,
      91115, 92776, 94428, 96070, 97703, 99327, 100942, 102549,
      104147, 105737, 107319, 108894, 110460, 112020, 113572, 115117,
      116656, 118187, 119712, 121231, 122743, 124249, 125749, 127243,
      128732, 130214, 131691, 133162, 134628, 136089, 137545, 138995 >>

\* adjusted_gap(new_gap) ** gap_exponent, in thousandths
GapCost(new_gap) == GapCostTable[new_gap \div 10]

\* The meetings of a list of sections, in the order the code appends them.
RECURSIVE MeetingsOf(_)
MeetingsOf(path) ==
    IF path = << >> THEN << >>
    ELSE SectionMeetings(Head(path)) \o MeetingsOf(Tail(path))

\* day_meetings[day] before sorting: the (start, end) tuples of that day.
RECURSIVE DayTuples(_, _)
DayTuples(ms, day) ==
    IF ms = << >> THEN << >>
    ELSE IF Head(ms).days = day
         THEN << <<Head(ms).start_time, Head(ms).end_time>> >> \o DayTuples(Tail(ms), day)
         ELSE DayTuples(Tail(ms), day)

\* Python's order on (start, end) tuples.
TupleLess(a, b) == a[1] < b[1] \/ (a[1] = b[1] /\ a[2] < b[2])

RECURSIVE InsertSorted(_, _)
InsertSorted(s, x) ==
    IF s = << >> THEN << x >>
    ELSE IF TupleLess(x, Head(s)) THEN << x >> \o s
         ELSE << Head(s) >> \o InsertSorted(Tail(s), x)

\* day_meetings[day].sort()
RECURSIVE SortTuples(_)
SortTuples(s) ==
    IF s = << >> THEN << >>
    ELSE InsertSorted(SortTuples(Tail(s)), Head(s))

\* Faulty variant of Conflict: the starts are compared instead of this
\* meeting's end with the next one's start.
Conflict_StartForEnd(cur, nxt) == cur[1] > nxt[1]

\* Faulty variant of Conflict: this meeting's end is compared with the next
\* one's end, so that two meetings in the identical slot pass.
Conflict_EndForStart(cur, nxt) == cur[2] > nxt[2]

\* Faulty variant of Conflict: a meeting that ends exactly when the next one
\* starts counts as a conflict.
Conflict_Touching(cur, nxt) == cur[2] >= nxt[1]

\* The test of line 87 on two neighbours (start, end), (next_start, next_end)
\* of the sorted list.
Conflict(cur, nxt) == cur[2] > nxt[1]

\* Faulty variant of ScanDay: the gap is measured from the start of this
\* meeting instead of its end.
RECURSIVE ScanDay_GapFromStart(_, _)
ScanDay_GapFromStart(s, i) ==
    IF i >= Len(s) THEN [conflict |-> FALSE, total_gap |-> 0, cost |-> 0]
    ELSE IF Conflict(s[i], s[i + 1])
         THEN [conflict |-> TRUE, total_gap |-> 0, cost |-> 0]
         ELSE LET new_gap == s[i + 1][1] - s[i][1]
                  rest    == ScanDay_GapFromStart(s, i + 1)
              IN  [conflict  |-> rest.conflict,
                   total_gap |-> rest.total_gap + (IF new_gap > 0 THEN new_gap ELSE 0),
                   cost      |-> rest.cost + (IF new_gap > 0 THEN GapCost(new_gap) ELSE 0)]

\* The scan of one day's sorted list from position i on (lines 82-95):
\* whether a conflict was met, and the gap minutes and gap cost accumulated.
RECURSIVE ScanDay(_, _)
ScanDay(s, i) ==
    IF i >= Len(s) THEN [conflict |-> FALSE, total_gap |-> 0, cost |-> 0]
    ELSE IF Conflict(s[i], s[i + 1])
         THEN [conflict |-> TRUE, total_gap |-> 0, cost |-> 0]
         ELSE LET new_gap == s[i + 1][1] - s[i][2]
                  rest    == ScanDay(s, i + 1)
              IN  [conflict  |-> rest.conflict,
                   total_gap |-> rest.total_gap + (IF new_gap > 0 THEN new_gap ELSE 0),
                   cost      |-> rest.cost + (IF new_gap > 0 THEN GapCost(new_gap) ELSE 0)]

RECURSIVE SumOver(_, _)
SumOver(S, f) ==
    IF S = {} THEN 0
    ELSE LET x == CHOOSE y \in S : TRUE IN f[x] + SumOver(S \ {x}, f)

\* The keys of day_meetings in the order they were inserted (lines 65-70).
RECURSIVE DayOrder(_)
DayOrder(ms) ==
    IF ms = << >> THEN << >>
    ELSE LET before == DayOrder(SubSeq(ms, 1, Len(ms) - 1))
             day    == ms[Len(ms)].days
         IN  IF \E i \in DOMAIN before : before[i] = day THEN before ELSE Append(before, day)

\* A day's list makes Python raise TypeError: with two or more tuples of
\* which one holds None, either sort() compares None with a time or with a
\* datetime (line 77), or the test of line 87 compares None with None.
DayRaises(tuples) ==
    Len(tuples) >= 2 /\ \E i \in DOMAIN tuples : tuples[i][1] = NoTime

\* What stops the loop over the days of lines 76-95 from the i-th day on:
\* a TypeError, the return on a conflict, or nothing.
RECURSIVE FirstStop(_, _, _)
FirstStop(ms, order, i) ==
    IF i > Len(order) THEN "none"
    ELSE LET tuples == DayTuples(ms, order[i])
         IN  IF DayRaises(tuples) THEN "TypeError"
             ELSE IF ScanDay(SortTuples(tuples), 1).conflict THEN "conflict"
             ELSE FirstStop(ms, order, i + 1)

\* The outcome of a call that raised TypeError.
TypeError == [raised |-> "TypeError"]

\* Faulty variant of calculate_weight: DAY_WEIGHT is charged once for a
\* schedule that meets at all, not once per day.
calculate_weight_OneDayPenalty(path, new_section) ==
    LET ms   == MeetingsOf(path) \o SectionMeetings(new_section)
        days == { ms[i].days : i \in DOMAIN ms }
        scan == [day \in days |-> ScanDay(SortTuples(DayTuples(ms, day)), 1)]
        num_days_with_meetings == Cardinality(days)
    IN  IF \E day \in days : scan[day].conflict
        THEN [cost |-> Inf, stats |-> 1]
        ELSE [cost  |-> SumOver(days, [day \in days |-> scan[day].cost])
                          + (IF days = {} THEN 0 ELSE Milli(DAY_WEIGHT)),
              stats |-> [total_gap |-> SumOver(days, [day \in days |-> scan[day].total_gap]),
                         num_days_with_meetings |-> num_days_with_meetings]]

\* Faulty variant of calculate_weight: num_days_with_meetings starts at 1.
calculate_weight_DaysFromOne(path, new_section) ==
    LET ms   == MeetingsOf(path) \o SectionMeetings(new_section)
        days == { ms[i].days : i \in DOMAIN ms }
        scan == [day \in days |-> ScanDay(SortTuples(DayTuples(ms, day)), 1)]
        num_days_with_meetings == 1 + Cardinality(days)
    IN  IF \E day \in days : scan[day].conflict
        THEN [cost |-> Inf, stats |-> 1]
        ELSE [cost  |-> SumOver(days, [day \in days |-> scan[day].cost])
                          + num_days_with_meetings * Milli(DAY_WEIGHT),
              stats |-> [total_gap |-> SumOver(days, [day \in days |-> scan[day].total_gap]),
                         num_days_with_meetings |-> num_days_with_meetings]]

\* Faulty variant of calculate_weight: a day counts only when it has more
\* than one meeting.
calculate_weight_DaysWithTwo(path, new_section) ==
    LET ms   == MeetingsOf(path) \o SectionMeetings(new_section)
        days == { ms[i].days : i \in DOMAIN ms }
        scan == [day \in days |-> ScanDay(SortTuples(DayTuples(ms, day)), 1)]
        num_days_with_meetings == Cardinality({ day \in days : Len(DayTuples(ms, day)) > 1 })
    IN  IF \E day \in days : scan[day].conflict
        THEN [cost |-> Inf, stats |-> 1]
        ELSE [cost  |-> SumOver(days, [day \in days |-> scan[day].cost])
                          + num_days_with_meetings * Milli(DAY_WEIGHT),
              stats |-> [total_gap |-> SumOver(days, [day \in days |-> scan[day].total_gap]),
                         num_days_with_meetings |-> num_days_with_meetings]]

\* calculate_weight(path, new_section): (cost, stats); (Inf, 1) on a conflict;
\* TypeError when a day with a meeting without times holds another meeting.
calculate_weight(path, new_section) ==
    LET ms   == MeetingsOf(path) \o SectionMeetings(new_section)
        days == { ms[i].days : i \in DOMAIN ms }
        scan == [day \in days |-> ScanDay(SortTuples(DayTuples(ms, day)), 1)]
        num_days_with_meetings == Cardinality(days)
    IN  IF /\ \E i \in DOMAIN ms : ms[i].start_time = NoTime
           /\ FirstStop(ms, DayOrder(ms), 1) = "TypeError"
        THEN TypeError
        ELSE IF \E day \in days : scan[day].conflict
        THEN [cost |-> Inf, stats |-> 1]
        ELSE [cost  |-> SumOver(days, [day \in days |-> scan[day].cost])
                          + num_days_with_meetings * Milli(DAY_WEIGHT),
              stats |-> [total_gap |-> SumOver(days, [day \in days |-> scan[day].total_gap]),
                         num_days_with_meetings |-> num_days_with_meetings]]

-----------------------------------------------------------------------------
(* optimize_schedule. *)

\* The empty dict the start state carries as its stats.
NoStats == [k \in {} |-> 0]

\* Faulty variant of State: every state carries the sequence number 0.
State_NoCounter(cost, n, path, course_idx, stats) ==
    [cost |-> cost, counter |-> 0, path |-> path, course_idx |-> course_idx, stats |-> stats]

\* (cost, counter, path, course_index, stats)
State(cost, n, path, course_idx, stats) ==
    [cost |-> cost, counter |-> n, path |-> path, course_idx |-> course_idx, stats |-> stats]

start_state == State(0, 0, << >>, 0, NoStats)

\* Faulty variant of NoCourses: the early return is never taken.
NoCourses_Never(cs) == FALSE

\* The early return of lines 138-139.
NoCourses(cs) == Len(cs) = 0

\* Faulty variant of EntryLess: equal costs are broken by the later counter.
EntryLess_LaterFirst(a, b) == a.cost < b.cost \/ (a.cost = b.cost /\ a.counter > b.counter)

\* heapq order on frontier and result entries: cost, then the tie-break counter.
EntryLess(a, b) == a.cost < b.cost \/ (a.cost = b.cost /\ a.counter < b.counter)

\* The entry heapq.heappop returns.
HeapMin(heap) == CHOOSE e \in heap : \A o \in heap \ {e} : EntryLess(e, o)

\* float addition with an infinite operand
Plus(a, b) == IF a = Inf THEN Inf ELSE a + b

\* Faulty variant of Pruned: a cost equal to the bound is discarded too.
Pruned_AtBound(cost, best) == cost = Inf \/ cost >= Plus(best, Milli(PRUNE_MARGIN))

\* Faulty variant of Pruned: only the bound is tested, so a child with a
\* conflict is kept as long as no complete schedule has been found.
Pruned_BoundOnly(cost, best) == cost > Plus(best, Milli(PRUNE_MARGIN))

\* Faulty variant of Pruned: before the first complete schedule the bound is
\* taken from 0 instead of infinity.
Pruned_FromZero(cost, best) ==
    cost = Inf \/ cost > (IF best = Inf THEN 0 ELSE best) + Milli(PRUNE_MARGIN)

\* The test of line 167.
Pruned(cost, best) == cost = Inf \/ cost > Plus(best, Milli(PRUNE_MARGIN))

\* Faulty variant of NotVisited: the visited set is not consulted.
NotVisited_Always(state_id, vis) == TRUE

\* The test of line 179.
NotVisited(state_id, vis) == state_id \notin vis

\* Faulty variant of NextCourse: a child stays at its parent's course.
NextCourse_Stay(course_idx) == course_idx

\* course_idx + 1, the child's next course index (lines 174, 177)
NextCourse(course_idx) == course_idx + 1

\* Faulty variant of NewPath: the section is put in front of the path.
NewPath_InFront(path, section) == << section >> \o path

\* new_path = path + [section] (line 163)
NewPath(path, section) == Append(path, section)

\* Faulty variant of Expand: a course without candidate sections is skipped,
\* the popped state moving on to the next course with its path unchanged.
RECURSIVE Expand_SkipEmpty(_, _, _, _, _, _, _)
Expand_SkipEmpty(sections, i, node, best, q, vis, ctr) ==
    IF sections = << >>
    THEN [queue   |-> q \cup {[node EXCEPT !.counter = ctr, !.course_idx = node.course_idx + 1]},
          visited |-> vis, counter |-> ctr + 1]
    ELSE IF i > Len(sections) THEN [queue |-> q, visited |-> vis, counter |-> ctr]
    ELSE LET section  == sections[i]
             new_path == NewPath(node.path, section)
             w        == calculate_weight(node.path, section)
         IN  IF Pruned(w.cost, best)
             THEN Expand_SkipEmpty(sections, i + 1, node, best, q, vis, ctr)
             ELSE LET new_state == State(w.cost, ctr, new_path, NextCourse(node.course_idx), w.stats)
                      state_id  == <<NextCourse(node.course_idx), new_path>>
                  IN  IF NotVisited(state_id, vis)
                      THEN Expand_SkipEmpty(sections, i + 1, node, best,
                                  q \cup {new_state}, vis \cup {state_id}, ctr + 1)
                      ELSE Expand_SkipEmpty(sections, i + 1, node, best, q, vis, ctr + 1)

\* Faulty variant of Expand: the cost of a child is its parent's stored cost
\* plus the weight calculate_weight returns.
RECURSIVE Expand_AddsToParent(_, _, _, _, _, _, _)
Expand_AddsToParent(sections, i, node, best, q, vis, ctr) ==
    IF i > Len(sections) THEN [queue |-> q, visited |-> vis, counter |-> ctr]
    ELSE LET section  == sections[i]
             new_path == NewPath(node.path, section)
             w        == calculate_weight(node.path, section)
             cost     == IF w.cost = Inf THEN Inf ELSE node.cost + w.cost
         IN  IF Pruned(cost, best)
             THEN Expand_AddsToParent(sections, i + 1, node, best, q, vis, ctr)
             ELSE LET new_state == State(cost, ctr, new_path, NextCourse(node.course_idx), w.stats)
                      state_id  == <<NextCourse(node.course_idx), new_path>>
                  IN  IF NotVisited(state_id, vis)
                      THEN Expand_AddsToParent(sections, i + 1, node, best,
                                  q \cup {new_state}, vis \cup {state_id}, ctr + 1)
                      ELSE Expand_AddsToParent(sections, i + 1, node, best, q, vis, ctr + 1)

\* Faulty variant of Expand: the id of a child is marked visited before the
\* conflict and bound test, so discarded children are marked too.
RECURSIVE Expand_MarksDiscarded(_, _, _, _, _, _, _)
Expand_MarksDiscarded(sections, i, node, best, q, vis, ctr) ==
    IF i > Len(sections) THEN [queue |-> q, visited |-> vis, counter |-> ctr]
    ELSE LET section  == sections[i]
             new_path == NewPath(node.path, section)
             w        == calculate_weight(node.path, section)
             state_id == <<NextCourse(node.course_idx), new_path>>
         IN  IF Pruned(w.cost, best)
             THEN Expand_MarksDiscarded(sections, i + 1, node, best, q, vis \cup {state_id}, ctr)
             ELSE LET new_state == State(w.cost, ctr, new_path, NextCourse(node.course_idx), w.stats)
                  IN  IF NotVisited(state_id, vis)
                      THEN Expand_MarksDiscarded(sections, i + 1, node, best,
                                  q \cup {new_state}, vis \cup {state_id}, ctr + 1)
                      ELSE Expand_MarksDiscarded(sections, i + 1, node, best, q, vis, ctr + 1)

\* The for loop of lines 162-181 from the i-th section of the course on,
\* threading the frontier, the visited set and the counter.
RECURSIVE Expand(_, _, _, _, _, _, _)
Expand(sections, i, node, best, q, vis, ctr) ==
    IF i > Len(sections) THEN [queue |-> q, visited |-> vis, counter |-> ctr]
    ELSE LET section  == sections[i]
             new_path == NewPath(node.path, section)
             w        == calculate_weight(node.path, section)
         IN  IF Pruned(w.cost, best)
             THEN Expand(sections, i + 1, node, best, q, vis, ctr)
             ELSE LET new_state == State(w.cost, ctr, new_path, NextCourse(node.course_idx), w.stats)
                      state_id  == <<NextCourse(node.course_idx), new_path>>
                  IN  IF NotVisited(state_id, vis)
                      THEN Expand(sections, i + 1, node, best,
                                  q \cup {new_state}, vis \cup {state_id}, ctr + 1)
                      ELSE Expand(sections, i + 1, node, best, q, vis, ctr + 1)

\* The result dict of lines 150-155.
Result(node) ==
    [cost |-> node.cost,
     total_gap_minutes |-> node.stats["total_gap"],
     num_days_with_meetings |-> node.stats["num_days_with_meetings"],
     sections |-> node.path]

\* Faulty variant of NSmallest: the first n results in the order they were
\* recorded, without sorting by cost.
RECURSIVE NSmallest_Unsorted(_, _)
NSmallest_Unsorted(n, heap) ==
    IF n <= 0 \/ heap = {} THEN << >>
    ELSE LET m == CHOOSE e \in heap : \A o \in heap : e.counter <= o.counter
         IN  << m.result >> \o NSmallest_Unsorted(n - 1, heap \ {m})

\* Faulty variant of NSmallest: one result too few.
RECURSIVE NSmallest_OneShort(_, _)
NSmallest_OneShort(n, heap) ==
    IF n <= 1 \/ heap = {} THEN << >>
    ELSE LET m == HeapMin(heap)
         IN  << m.result >> \o NSmallest_OneShort(n - 1, heap \ {m})

\* heapq.nsmallest(n, heap), projected to the results (line 184).
RECURSIVE NSmallest(_, _)
NSmallest(n, heap) ==
    IF n <= 0 \/ heap = {} THEN << >>
    ELSE LET m == HeapMin(heap)
         IN  << m.result >> \o NSmallest(n - 1, heap \ {m})

\* Faulty variant of Min: the second argument, whatever the first.
Min_Second(a, b) == b

Min(a, b) == IF a <= b THEN a ELSE b

Init ==
    /\ courses \in UNION { CourseLists(n) : n \in 0..MaxCourses } \cup SingleOnline \cup AtTheBound
    /\ top \in 0..MaxTop
    /\ queue = {start_state}
    /\ results = {}
    /\ visited = {}
    /\ best_complete_cost = Inf
    /\ counter = 1
    /\ result_counter = 0
    /\ returned = << >>
    /\ pc = "loop"
    /\ entry = "engine"
    /\ gpc = "searching"
    /\ requested = Len(courses)
    /\ tasks = << >>
    /\ hydrated = FALSE
    /\ course_hydrated = << >>
    /\ site = << >>
    /\ args = << >>
    /\ outcome = << >>

\* lines 138-139: no courses, return [].
ReturnEmpty ==
    /\ pc = "loop"
    /\ NoCourses(courses)
    /\ returned' = << >>
    /\ pc' = "done"
    /\ UNCHANGED <<courses, top, queue, results, visited, best_complete_cost,
                   counter, result_counter>>
    /\ UNCHANGED genvars
    /\ UNCHANGED callvars

\* lines 144-159: pop a complete state and record it.  Reading the stats of
\* a state that has none raises KeyError.
\* Faulty variant of PopComplete: the complete state is recorded but stays on
\* the frontier.
PopComplete_StaysOpen ==
    /\ pc = "loop"
    /\ ~NoCourses(courses)
    /\ queue # {}
    /\ LET node == HeapMin(queue)
       IN  /\ node.course_idx = Len(courses)
           /\ queue' = queue
           /\ best_complete_cost' = Min(best_complete_cost, node.cost)
           /\ results' = results \cup
                  {[cost |-> node.cost, counter |-> result_counter, result |-> Result(node)]}
           /\ result_counter' = result_counter + 1
    /\ UNCHANGED <<courses, top, visited, counter, returned, pc>>
    /\ UNCHANGED genvars
    /\ UNCHANGED callvars

PopComplete ==
    /\ pc = "loop"
    /\ ~NoCourses(courses)
    /\ queue # {}
    /\ LET node == HeapMin(queue)
       IN  /\ node.course_idx = Len(courses)
           /\ queue' = queue \ {node}
           /\ best_complete_cost' = Min(best_complete_cost, node.cost)
           /\ IF {"total_gap", "num_days_with_meetings"} \subseteq DOMAIN node.stats
              THEN /\ results' = results \cup
                         {[cost |-> node.cost, counter |-> result_counter, result |-> Result(node)]}
                   /\ result_counter' = result_counter + 1
                   /\ pc' = pc
              ELSE /\ pc' = "error"
                   /\ UNCHANGED <<results, result_counter>>
    /\ UNCHANGED <<courses, top, visited, counter, returned>>
    /\ UNCHANGED genvars
    /\ UNCHANGED callvars

\* Faulty variant of PopExpand: the sections tried are taken off the
\* course's list, which is left empty.
PopExpand_ConsumesSections ==
    /\ pc = "loop"
    /\ ~NoCourses(courses)
    /\ queue # {}
    /\ LET node == HeapMin(queue)
       IN  /\ node.course_idx # Len(courses)
           /\ LET e == Expand(courses[node.course_idx + 1], 1, node, best_complete_cost,
                              queue \ {node}, visited, counter)
              IN  /\ queue' = e.queue
                  /\ visited' = e.visited
                  /\ counter' = e.counter
           /\ courses' = [courses EXCEPT ![node.course_idx + 1] = << >>]
    /\ UNCHANGED <<top, results, best_complete_cost, result_counter, returned, pc>>
    /\ UNCHANGED genvars
    /\ UNCHANGED callvars

\* lines 144, 162-181: pop an incomplete state and push its children.
PopExpand ==
    /\ pc = "loop"
    /\ ~NoCourses(courses)
    /\ queue # {}
    /\ LET node == HeapMin(queue)
       IN  /\ node.course_idx # Len(courses)
           /\ LET e == Expand(courses[node.course_idx + 1], 1, node, best_complete_cost,
                              queue \ {node}, visited, counter)
              IN  /\ queue' = e.queue
                  /\ visited' = e.visited
                  /\ counter' = e.counter
    /\ UNCHANGED <<courses, top, results, best_complete_cost, result_counter, returned, pc>>
    /\ UNCHANGED genvars
    /\ UNCHANGED callvars

\* Faulty variant of ReturnResults: the call also returns as soon as one
\* complete schedule has been recorded.
ReturnResults_AtFirstResult ==
    /\ pc = "loop"
    /\ ~NoCourses(courses)
    /\ (queue = {} \/ results # {})
    /\ returned' = NSmallest(top, results)
    /\ pc' = "done"
    /\ UNCHANGED <<courses, top, queue, results, visited, best_complete_cost,
                   counter, result_counter>>
    /\ UNCHANGED genvars
    /\ UNCHANGED callvars

\* lines 142, 184: the frontier is empty, return the top results.
ReturnResults ==
    /\ pc = "loop"
    /\ ~NoCourses(courses)
    /\ queue = {}
    /\ returned' = NSmallest(top, results)
    /\ pc' = "done"
    /\ UNCHANGED <<courses, top, queue, results, visited, best_complete_cost,
                   counter, result_counter>>
    /\ UNCHANGED genvars
    /\ UNCHANGED callvars

Next == ReturnEmpty \/ PopComplete \/ PopExpand \/ ReturnResults

Spec == Init /\ [][Next]_vars

\* A step of the call can be taken exactly while the call runs: this is
\* ENABLED <<Next>>_vars, stated on the state.
Running == pc = "loop"

\* The call is a sequential loop, so a step that can be taken is taken:
\* weak fairness of Next, WF_vars(Next), with its enabling condition
\* written as Running.
FairSpec == Spec /\ ([]<>(~Running) \/ []<><<Next>>_vars)

-----------------------------------------------------------------------------
(* The callers of the search: ScheduleGenerator, its command line and the  *)
(* API handlers.  A request names `requested` courses and a value of top;  *)
(* the courses are hydrated, then the search is called.                    *)

\* The lowest value of top a request carries; no caller bounds it below.
MinTop == -1

\* The handlers refuse more than 10 courses (api.py lines 102, 140).
MaxApiCourses == 10

\* A request with one course too many for the handlers.
TooMany == MaxApiCourses + 1

\* The numbers of course ids a caller can send: a handler takes any list,
\* the command line needs at least one id (nargs="+"), and only the handlers
\* and the command line are given the long request.
Requests(caller) ==
    CASE caller = "api" -> 0..MaxRequested \cup {TooMany}
      [] caller = "cli" -> 1..MaxRequested \cup {TooMany}
      [] OTHER -> 0..MaxRequested

RECURSIVE Reverse(_)
Reverse(seq) == IF seq = << >> THEN << >> ELSE Append(Reverse(Tail(seq)), Head(seq))

\* What scrape_sections may leave in the i-th course's .sections: a
\* non-empty list that passed filter_sections, reversed.
Scraped(i) ==
    { Reverse(SubSeq(Offered(i), 1, k)) :
          k \in 1..(IF Len(Offered(i)) < MaxSections THEN Len(Offered(i)) ELSE MaxSections) }

\* What scraping and filtering a course gives: the sections that passed,
\* in the order offered, or a failure.
Passed(sections) == [ok |-> TRUE, sections |-> sections]

Failure == [ok |-> FALSE, sections |-> << >>]

\* The outcomes for the i-th of n courses: the first one to MaxSections
\* sections offered, or a failure; no course of the long request fails.
SiteOutcomes(i, n) ==
    { Passed(SubSeq(Offered(i), 1, k)) :
          k \in 1..(IF Len(Offered(i)) < MaxSections THEN Len(Offered(i)) ELSE MaxSections) }
    \cup (IF n <= MaxRequested THEN {Failure} ELSE {})

\* The outcomes for the first k of n courses.
RECURSIVE SitesUpTo(_, _)
SitesUpTo(k, n) ==
    IF k = 0 THEN { << >> }
    ELSE { Append(s, x) : s \in SitesUpTo(k - 1, n), x \in SiteOutcomes(k, n) }

Sites(n) == SitesUpTo(n, n)

\* Faulty variant of Gathered: one finished task is enough.
Gathered_Any(ts) == \E i \in DOMAIN ts : ts[i] = "done"

\* asyncio.gather returns when every task has finished without raising.
Gathered(ts) == \A i \in DOMAIN ts : ts[i] = "done"

GenInit ==
    /\ entry \in {"api", "cli", "sync"}
    /\ requested \in Requests(entry)
    /\ top \in MinTop..MaxTop
    /\ gpc = "request"
    /\ courses = << >>
    /\ tasks = << >>
    /\ hydrated = FALSE
    /\ course_hydrated = << >>
    /\ site \in Sites(requested)
    /\ args = << >>
    /\ outcome = << >>
    /\ queue = {start_state}
    /\ results = {}
    /\ visited = {}
    /\ best_complete_cost = Inf
    /\ counter = 1
    /\ result_counter = 0
    /\ returned = << >>
    /\ pc = "idle"

searchvars == <<queue, results, visited, best_complete_cost, counter, result_counter, returned, pc>>

\* api.py lines 102-103, 140-141: more than 10 courses, HTTP 422.
ApiReject ==
    /\ gpc = "request"
    /\ entry = "api"
    /\ requested > MaxApiCourses
    /\ gpc' = "rejected"
    /\ UNCHANGED <<courses, top, entry, requested, tasks, hydrated>>
    /\ UNCHANGED searchvars
    /\ UNCHANGED <<course_hydrated, site>>
    /\ UNCHANGED callvars

\* ScheduleGenerator.__init__: one Course per id, each with no sections yet.
Construct ==
    /\ gpc = "request"
    /\ entry = "api" => requested <= MaxApiCourses
    /\ courses' = [i \in 1..requested |-> << >>]
    /\ course_hydrated' = [i \in 1..requested |-> FALSE]
    /\ hydrated' = FALSE
    /\ gpc' = "constructed"
    /\ UNCHANGED <<top, entry, requested, tasks, site>>
    /\ UNCHANGED searchvars
    /\ UNCHANGED callvars

\* hydrate_courses_async, lines 178-179: one scrape_sections task per
\* course.  The handlers await it; the command line enters it from
\* generate_schedules, since the generator is not hydrated.
HydrateAsyncStart ==
    /\ gpc = "constructed"
    /\ entry \in {"api", "cli"}
    /\ ~hydrated
    /\ tasks' = [i \in 1..Len(courses) |-> "pending"]
    /\ gpc' = "hydrating"
    /\ UNCHANGED <<courses, top, entry, requested, hydrated>>
    /\ UNCHANGED searchvars
    /\ UNCHANGED <<course_hydrated, site>>
    /\ UNCHANGED callvars

\* Faulty variant of ScrapeSucceed: the sections go to the first course
\* that has none yet, in the order the tasks finish.
ScrapeSucceed_FirstFree(i) ==
    /\ gpc \in {"hydrating", "aborted"}
    /\ tasks[i] = "pending"
    /\ requested > MaxRequested => \A j \in 1..(i - 1) : tasks[j] = "done"
    /\ site[i].ok
    /\ LET k == CHOOSE k \in DOMAIN courses :
                    courses[k] = << >> /\ \A j \in 1..(k - 1) : courses[j] # << >>
       IN  /\ courses' = [courses EXCEPT ![k] = Reverse(site[i].sections)]
           /\ course_hydrated' = [course_hydrated EXCEPT ![k] = TRUE]
    /\ tasks' = [tasks EXCEPT ![i] = "done"]
    /\ UNCHANGED <<top, entry, gpc, requested, hydrated, site>>
    /\ UNCHANGED searchvars
    /\ UNCHANGED callvars

\* Course.scrape_sections succeeds (course.py lines 127-133): the filtered
\* sections are assigned and reversed, then the course is hydrated.  After
\* gather raised the other tasks keep running: on a handler's loop, and on
\* the command line until asyncio.run cancels them.
\* The tasks of the long request are followed in one order only.
ScrapeSucceed(i) ==
    /\ gpc \in {"hydrating", "aborted"}
    /\ tasks[i] = "pending"
    /\ requested > MaxRequested => \A j \in 1..(i - 1) : tasks[j] = "done"
    /\ site[i].ok
    /\ courses' = [courses EXCEPT ![i] = Reverse(site[i].sections)]
    /\ course_hydrated' = [course_hydrated EXCEPT ![i] = TRUE]
    /\ tasks' = [tasks EXCEPT ![i] = "done"]
    /\ UNCHANGED <<top, entry, gpc, requested, hydrated, site>>
    /\ UNCHANGED searchvars
    /\ UNCHANGED callvars

\* Faulty variant of ScrapeFail: the course is marked hydrated before the
\* exception leaves scrape_sections.
ScrapeFail_MarksHydrated(i) ==
    /\ gpc \in {"hydrating", "aborted"}
    /\ tasks[i] = "pending"
    /\ ~site[i].ok
    /\ tasks' = [tasks EXCEPT ![i] = "failed"]
    /\ course_hydrated' = [course_hydrated EXCEPT ![i] = TRUE]
    /\ UNCHANGED <<courses, top, entry, gpc, requested, hydrated, site>>
    /\ UNCHANGED searchvars
    /\ UNCHANGED callvars

\* Course.scrape_sections raises: the scrape failed, or filter_sections
\* found nothing to keep.  No task of the long request is made to fail.
ScrapeFail(i) ==
    /\ gpc \in {"hydrating", "aborted"}
    /\ tasks[i] = "pending"
    /\ ~site[i].ok
    /\ tasks' = [tasks EXCEPT ![i] = "failed"]
    /\ UNCHANGED <<courses, top, entry, gpc, requested, hydrated, course_hydrated, site>>
    /\ UNCHANGED searchvars
    /\ UNCHANGED callvars

\* lines 179-181: gather returns, the generator is hydrated.
GatherReturn ==
    /\ gpc = "hydrating"
    /\ Gathered(tasks)
    /\ hydrated' = TRUE
    /\ gpc' = "ready"
    /\ UNCHANGED <<courses, top, entry, requested, tasks>>
    /\ UNCHANGED searchvars
    /\ UNCHANGED <<course_hydrated, site>>
    /\ UNCHANGED callvars

\* line 179: gather raises the first failure; nothing catches it, and
\* line 181 is not reached.  The tasks still pending stay on the event loop.
GatherRaise ==
    /\ gpc = "hydrating"
    /\ \E i \in DOMAIN tasks : tasks[i] = "failed"
    /\ gpc' = "aborted"
    /\ UNCHANGED <<courses, top, entry, requested, tasks, hydrated>>
    /\ UNCHANGED searchvars
    /\ UNCHANGED <<course_hydrated, site>>
    /\ UNCHANGED callvars

\* line 196 on the command line: asyncio.run closes its loop and cancels the
\* tasks that are still pending, each of which stops at its await of
\* scrape_course (course.py line 128) and writes nothing; the exception of
\* gather leaves generate_schedules.  A task that finished between line 179
\* and this step has run course.py lines 128-136.
GenerateRaised ==
    /\ gpc = "aborted"
    /\ entry = "cli"
    /\ tasks' = [i \in DOMAIN tasks |->
                    IF tasks[i] = "pending" THEN "cancelled" ELSE tasks[i]]
    /\ gpc' = "raised"
    /\ UNCHANGED <<courses, top, entry, requested, hydrated>>
    /\ UNCHANGED searchvars
    /\ UNCHANGED <<course_hydrated, site>>
    /\ UNCHANGED callvars

\* hydrate_courses, lines 158-164: Course has no hydrate_sections, so every
\* call raises AttributeError; the loop prints it and goes on, and the
\* generator is marked hydrated.
HydrateSync ==
    /\ gpc = "constructed"
    /\ entry = "sync"
    /\ tasks' = [i \in 1..Len(courses) |-> "failed"]
    /\ hydrated' = TRUE
    /\ gpc' = "ready"
    /\ UNCHANGED <<courses, top, entry, requested>>
    /\ UNCHANGED searchvars
    /\ UNCHANGED <<course_hydrated, site>>
    /\ UNCHANGED callvars

\* generate_schedules, lines 195-198: hydrated, so optimize_schedule is
\* called with the courses and top (astar.py lines 121-136).
StartSearch ==
    /\ gpc = "ready"
    /\ hydrated
    /\ pc = "idle"
    /\ queue' = {start_state}
    /\ results' = {}
    /\ visited' = {}
    /\ best_complete_cost' = Inf
    /\ counter' = 1
    /\ result_counter' = 0
    /\ returned' = << >>
    /\ pc' = "loop"
    /\ gpc' = "searching"
    /\ UNCHANGED <<courses, top, entry, requested, tasks, hydrated>>
    /\ UNCHANGED <<course_hydrated, site>>
    /\ UNCHANGED callvars

\* lines 198-200: the search returned; its list is the caller's result.
GenerateReturn ==
    /\ gpc = "searching"
    /\ entry # "engine"
    /\ pc = "done"
    /\ gpc' = "returned"
    /\ UNCHANGED <<courses, top, entry, requested, tasks, hydrated>>
    /\ UNCHANGED searchvars
    /\ UNCHANGED <<course_hydrated, site>>
    /\ UNCHANGED callvars

GenNext ==
    \/ ApiReject
    \/ Construct
    \/ HydrateAsyncStart
    \/ \E i \in 1..TooMany : i \in DOMAIN tasks /\ ScrapeSucceed(i)
    \/ \E i \in 1..TooMany : i \in DOMAIN tasks /\ ScrapeFail(i)
    \/ GatherReturn
    \/ GatherRaise
    \/ GenerateRaised
    \/ HydrateSync
    \/ StartSearch
    \/ Next
    \/ GenerateReturn

GenSpec == GenInit /\ [][GenNext]_vars

-----------------------------------------------------------------------------
(* The functions that stand alone, each applied once to its arguments.     *)

\* The years of the checked dates.
Years == {2024, 2025}

\* The number of days of a month.
DaysIn(year, month) ==
    IF month = 2 THEN (IF year % 4 = 0 THEN 29 ELSE 28)
    ELSE IF month \in {4, 6, 9, 11} THEN 30 ELSE 31

\* The dates of the checked years.
Dates ==
    { date \in [year : Years, month : 1..12, day : 1..31] :
          date.day <= DaysIn(date.year, date.month) }

\* The decimal digits of a natural number, as an f-string writes them.
RECURSIVE Str(_)
Str(n) ==
    LET digit == <<"0", "1", "2", "3", "4", "5", "6", "7", "8", "9">>[(n % 10) + 1]
    IN  IF n < 10 THEN << digit >> ELSE Append(Str(n \div 10), digit)

\* is_spring (scraper.py lines 7-23)
is_spring(date) ==
    \/ (date.month > 2 /\ date.month < 9)
    \/ (date.month = 2 /\ date.day >= 21)
    \/ (date.month = 9 /\ date.day <= 21)

\* get_closest_term_id (scraper.py lines 26-40): f"{current_year}08" in
\* spring, else f"{current_year}01".
get_closest_term_id(date) ==
    LET current_year == date.year
    IN  IF is_spring(date) THEN Str(current_year) \o <<"0", "8">>
        ELSE Str(current_year) \o <<"0", "1">>

\* Candidates for a second course that differ only in their start: fifty
\* minutes on Monday, starting every ten minutes from 11:00 to 12:30.
Ladder ==
    {"MockCourse2-11AM", "MockCourse2-1110AM", "MockCourse2-1120AM", "MockCourse2-1130AM",
     "MockCourse2-1140AM", "MockCourse2-1150AM", "MockCourse2-12PM", "MockCourse2-1210PM",
     "MockCourse2-1220PM", "MockCourse2-1230PM"}

\* A path of one Monday section, before or after the candidates, and two
\* candidates to weigh against it.
WeightPairs ==
    [path : {<<"MockCourse1-10AM">>, <<"MockCourse1-2PM">>}, A : Ladder, B : Ladder]

\* Raw sections after the data of src/tests/test_course.py: section_id and
\* day codes as sequences of characters, open_seats as the scraped text,
\* waitlist as its digits.
RawSection(n) ==
    CASE n = 1 -> [section_id |-> <<"0", "1", "0", "1">>,
                   meetings |-> << RawMeeting(<<"M", "W">>, 660, 710), RawMeeting(<<"F">>, 480, 530) >>,
                   open_seats |-> "37", waitlist |-> <<"0">>, instructors |-> {"Samantha Kemper"}]
      [] n = 2 -> [section_id |-> <<"0", "1", "0", "2">>,
                   meetings |-> << RawMeeting(<<"M", "W">>, 660, 710), RawMeeting(<<"F">>, 540, 590) >>,
                   open_seats |-> "20", waitlist |-> <<"0">>, instructors |-> {"Samantha Kemper"}]
      [] n = 3 -> [section_id |-> <<"0", "1", "0", "3">>,
                   meetings |-> << RawMeeting(<<"M", "W">>, 660, 710), RawMeeting(<<"T", "h">>, 600, 650) >>,
                   open_seats |-> "0", waitlist |-> <<"1", "2">>, instructors |-> {"Samantha Kemper"}]
      [] n = 4 -> [section_id |-> <<"E", "S", "G", "1">>,
                   meetings |-> << RawMeeting(<<"T", "u", "T", "h">>, 840, 915) >>,
                   open_seats |-> "5", waitlist |-> <<"0">>, instructors |-> {"Other"}]
      [] OTHER -> [section_id |-> <<"W", "B", "0", "1">>,
                   meetings |-> << RawMeeting(<< >>, NoTime, NoTime) >>,
                   open_seats |-> "5", waitlist |-> <<"0">>, instructors |-> {"Other"}]

\* The raw lists scraped for a course: up to MaxSections sections.
RECURSIVE RawLists(_)
RawLists(n) ==
    IF n = 0 THEN { << >> }
    ELSE RawLists(n - 1) \cup
         { Append(raw, RawSection(k)) :
               raw \in { r \in RawLists(n - 1) : Len(r) = n - 1 },
               k \in 1..5 }

\* The configured filters, Course.filters after the merge with the defaults.
FilterSets ==
    [no_esg : BOOLEAN, no_fc : {TRUE}, open_seats : BOOLEAN,
     earliest_start : {450, 540}, latest_end : {840, 1110},
     avoid_instructors : {{}, {"Samantha Kemper"}},
     max_waitlist : {1, 9999}, restrict_days : {{}, {<<"F">>}, {<<"T", "h">>}}]

\* needle in hay, on sequences of characters.
Contains(needle, hay) ==
    \E i \in 1..(Len(hay) - Len(needle) + 1) : SubSeq(hay, i, i + Len(needle) - 1) = needle

\* int() of a sequence of digits.
RECURSIVE IntOf(_)
IntOf(digits) ==
    IF digits = << >> THEN 0
    ELSE 10 * IntOf(SubSeq(digits, 1, Len(digits) - 1))
         + (CHOOSE d \in 0..9 : Str(d) = << digits[Len(digits)] >>)

\* FILTER_FUNCTIONS[name](value)(section) (course.py lines 19-50); a name
\* that is not there passes every section (lines 86-89).
FilterFunction(name, value, section) ==
    CASE name = "no_esg" -> (IF value THEN ~Contains(<<"E", "S", "G">>, section.section_id) ELSE TRUE)
      [] name = "no_fc" -> (IF value THEN ~Contains(<<"F", "C">>, section.section_id) ELSE TRUE)
      [] name = "open_seats" -> (IF value THEN section.open_seats # "0" ELSE TRUE)
      [] name = "earliest_start" ->
             \A i \in DOMAIN section.meetings :
                 section.meetings[i].start_time = NoTime \/ section.meetings[i].start_time >= value
      [] name = "latest_end" ->
             \A i \in DOMAIN section.meetings :
                 section.meetings[i].end_time = NoTime \/ section.meetings[i].end_time <= value
      [] name = "avoid_instructors" -> \A instructor \in value : instructor \notin section.instructors
      [] name = "max_waitlist" -> IntOf(section.waitlist) <= value
      [] name = "restrict_days" ->
             ~\E i \in DOMAIN section.meetings :
                 LET expanded == expand_days(section.meetings[i].days)
                 IN  \E k \in DOMAIN expanded : expanded[k] \in value
      [] OTHER -> TRUE

\* The section passes every configured filter (course.py lines 155-158).
PassesAll(section, filters) ==
    \A name \in DOMAIN filters : FilterFunction(name, filters[name], section)

\* The list comprehension of lines 152-159.
RECURSIVE Filtered(_, _)
Filtered(raw_sections, filters) ==
    IF raw_sections = << >> THEN << >>
    ELSE (IF PassesAll(Head(raw_sections), filters) THEN << Head(raw_sections) >> ELSE << >>)
         \o Filtered(Tail(raw_sections), filters)

\* Faulty variant of filter_sections: an empty result is returned.
filter_sections_ReturnsEmpty(raw_sections, filters) ==
    IF raw_sections = << >> THEN [raised |-> TRUE, sections |-> << >>]
    ELSE [raised |-> FALSE, sections |-> Filtered(raw_sections, filters)]

\* Course.filter_sections (course.py lines 138-225): raises on an empty raw
\* list and, whatever the message, on an empty filtered list.
filter_sections(raw_sections, filters) ==
    IF raw_sections = << >> THEN [raised |-> TRUE, sections |-> << >>]
    ELSE LET filtered_sections == Filtered(raw_sections, filters)
         IN  IF filtered_sections = << >> THEN [raised |-> TRUE, sections |-> << >>]
             ELSE [raised |-> FALSE, sections |-> filtered_sections]

\* Sections all of whose meetings lack both times.
Timeless == {"MockCourse2-ASYNC", "MockCourse2-NOTIME", "MockCourse2-TBA"}

\* A path and a section to add to it: the path of one or two sections with
\* or without meetings, the added section with or without times.
AddedPairs ==
    [path  : {<<"MockCourse1-10AM">>, <<"MockCourse1-TU">>, <<"MockCourse2-ONLINE">>,
              <<"MockCourse1-10AM", "MockCourse2-11AM">>, <<"MockCourse1-10AM", "MockCourse2-4PM">>,
              <<"MockCourse1-TU", "MockCourse3-MTH">>, <<"MockCourse2-NOTIME">>,
              <<"MockCourse2-LABTBA">>, <<"MockCourse1-TU", "MockCourse2-LABTBA">>,
              <<"MockCourse1-10AM", "MockCourse2-LABTBA">>},
     added : Timeless \cup {"MockCourse2-LABTBA", "MockCourse2-ONLINE", "MockCourse3-MTH",
                            "MockCourse1-10AM"}]

PureInit ==
    /\ entry \in {"get_closest_term_id", "calculate_weight", "add_section", "filter_sections"}
    /\ args \in (IF entry = "get_closest_term_id" THEN Dates
                 ELSE IF entry = "calculate_weight" THEN WeightPairs
                 ELSE IF entry = "add_section" THEN AddedPairs
                 ELSE [raw_sections : RawLists(MaxSections), filters : FilterSets])
    /\ outcome = << >>
    /\ pc = "call"
    /\ courses = << >>
    /\ top = 1
    /\ queue = {}
    /\ results = {}
    /\ visited = {}
    /\ best_complete_cost = Inf
    /\ counter = 0
    /\ result_counter = 0
    /\ returned = << >>
    /\ gpc = "request"
    /\ requested = 0
    /\ tasks = << >>
    /\ hydrated = FALSE
    /\ course_hydrated = << >>
    /\ site = << >>

\* The call get_closest_term_id(date).
CallGetClosestTermId ==
    /\ pc = "call"
    /\ entry = "get_closest_term_id"
    /\ outcome' = get_closest_term_id(args)
    /\ pc' = "done"
    /\ UNCHANGED <<courses, top, queue, results, visited, best_complete_cost,
                   counter, result_counter, returned, args>>
    /\ UNCHANGED genvars

\* The calls calculate_weight(path, A) and calculate_weight(path, B).
CallCalculateWeight ==
    /\ pc = "call"
    /\ entry = "calculate_weight"
    /\ outcome' = [A |-> calculate_weight(args.path, args.A),
                   B |-> calculate_weight(args.path, args.B)]
    /\ pc' = "done"
    /\ UNCHANGED <<courses, top, queue, results, visited, best_complete_cost,
                   counter, result_counter, returned, args>>
    /\ UNCHANGED genvars

\* The call calculate_weight that gave the path its cost, and the call
\* calculate_weight(path, added) of line 165 for a section of the next course.
CallAddSection ==
    /\ pc = "call"
    /\ entry = "add_section"
    /\ outcome' = [before |-> calculate_weight(SubSeq(args.path, 1, Len(args.path) - 1),
                                               args.path[Len(args.path)]),
                   after  |-> calculate_weight(args.path, args.added)]
    /\ pc' = "done"
    /\ UNCHANGED <<courses, top, queue, results, visited, best_complete_cost,
                   counter, result_counter, returned, args>>
    /\ UNCHANGED genvars

\* The call course.filter_sections(raw_sections).
CallFilterSections ==
    /\ pc = "call"
    /\ entry = "filter_sections"
    /\ outcome' = filter_sections(args.raw_sections, args.filters)
    /\ pc' = "done"
    /\ UNCHANGED <<courses, top, queue, results, visited, best_complete_cost,
                   counter, result_counter, returned, args>>
    /\ UNCHANGED genvars

PureNext ==
    \/ CallGetClosestTermId
    \/ CallCalculateWeight
    \/ CallAddSection
    \/ CallFilterSections

PureSpec == PureInit /\ [][PureNext]_vars

-----------------------------------------------------------------------------
(* What the claims speak of: the combinations of the input, their          *)
(* feasibility stated on the meetings themselves, and their total cost.    *)

\* Every one-section-per-course combination of a list of courses.
RECURSIVE Combos(_)
Combos(cs) ==
    IF cs = << >> THEN { << >> }
    ELSE { << cs[1][i] >> \o rest : i \in DOMAIN cs[1], rest \in Combos(Tail(cs)) }

\* Two meetings fall on the same day and their intervals overlap.
Overlap(m1, m2) ==
    /\ m1.days = m2.days
    /\ m1.start_time < m2.end_time
    /\ m2.start_time < m1.end_time

\* No two meetings of the sections of combo overlap.
ConflictFree(combo) ==
    LET ms == MeetingsOf(combo)
    IN  \A i, j \in DOMAIN ms : i < j => ~Overlap(ms[i], ms[j])

\* F: the feasible complete combinations of the input.
Feasible == { combo \in Combos(courses) : ConflictFree(combo) }

\* The cost of a whole non-empty combination.
TotalCost(combo) ==
    calculate_weight(SubSeq(combo, 1, Len(combo) - 1), combo[Len(combo)]).cost

RECURSIVE InsertInt(_, _)
InsertInt(s, x) ==
    IF s = << >> THEN << x >>
    ELSE IF x <= Head(s) THEN << x >> \o s
         ELSE << Head(s) >> \o InsertInt(Tail(s), x)

RECURSIVE SortInts(_)
SortInts(s) == IF s = << >> THEN << >> ELSE InsertInt(SortInts(Tail(s)), Head(s))

\* The costs of a set of combinations, ascending, one entry per combination.
RECURSIVE CostsAscending(_)
CostsAscending(S) ==
    IF S = {} THEN << >>
    ELSE LET c == CHOOSE x \in S : TRUE
         IN  InsertInt(CostsAscending(S \ {c}), TotalCost(c))

ReturnedCosts == [i \in DOMAIN returned |-> returned[i].cost]

Done == pc = "done"

-----------------------------------------------------------------------------
(* The claims. *)

\* C1: for a non-empty list of courses and top >= 1, the sorted costs of
\* the returned schedules are the min(top, |F|) smallest costs of the
\* feasible complete combinations F.
C1_ReturnsKLowest ==
    (Done /\ top >= 1 /\ ~NoCourses(courses)) =>
        SortInts(ReturnedCosts)
            = SubSeq(CostsAscending(Feasible), 1, Min(top, Cardinality(Feasible)))

\* C2: when a feasible complete combination exists and top >= 1, the first
\* returned schedule costs no more than any feasible complete combination.
C2_FirstIsCheapest ==
    (Done /\ top >= 1 /\ ~NoCourses(courses) /\ Feasible # {}) =>
        /\ returned # << >>
        /\ \A combo \in Feasible : returned[1].cost <= TotalCost(combo)

\* Two sections have meetings on the same day whose intervals overlap.
SectionsOverlap(s1, s2) ==
    \E i \in DOMAIN SectionMeetings(s1), j \in DOMAIN SectionMeetings(s2) :
        Overlap(SectionMeetings(s1)[i], SectionMeetings(s2)[j])

\* C3: no returned schedule contains two sections with overlapping meetings
\* on the same day.
C3_NoOverlapReturned ==
    \A k \in DOMAIN returned :
        \A a, b \in DOMAIN returned[k].sections :
            a < b => ~SectionsOverlap(returned[k].sections[a], returned[k].sections[b])

\* A schedule of three sections was returned although some combination of
\* the input has overlapping sections.
C3_Witness ==
    /\ Done
    /\ Len(courses) = 3
    /\ returned # << >>
    /\ Combos(courses) \ Feasible # {}

\* C4: the returned list is sorted by non-decreasing cost.
C4_SortedByCost ==
    \A k \in 1..(Len(returned) - 1) : returned[k].cost <= returned[k + 1].cost

\* Two schedules of different cost were returned, and the cheaper one was
\* recorded after a dearer one.
C4_Witness ==
    /\ Done
    /\ Len(returned) = 2
    /\ returned[1].cost < returned[2].cost
    /\ \E a, b \in results :
           a.counter < b.counter /\ b.cost < a.cost /\ b.result = returned[1]

\* The position at which a returned schedule was recorded as complete.
RecordedAt(result) == (CHOOSE e \in results : e.result = result).counter

\* C5: among returned schedules of equal cost, the one recorded as complete
\* earlier is ranked first.
C5_TiesByCompletionOrder ==
    Done =>
        \A i, j \in DOMAIN returned :
            (i < j /\ returned[i].cost = returned[j].cost) =>
                RecordedAt(returned[i]) < RecordedAt(returned[j])

\* Two schedules of equal cost were returned.
C5_Witness ==
    /\ Done
    /\ Len(returned) = 2
    /\ returned[1].cost = returned[2].cost

\* C6: at most min(top, |F|) schedules are returned, and they are pairwise
\* distinct combinations.
C6_AtMostTopDistinct ==
    /\ Len(returned) <= Min(top, Cardinality(Feasible))
    /\ \A i, j \in DOMAIN returned :
           i # j => returned[i].sections # returned[j].sections

\* More complete schedules were recorded than top asks for, from an input
\* in which a course lists the same section twice.
C6_Witness ==
    /\ Done
    /\ top >= 1
    /\ Len(returned) = top
    /\ Cardinality(results) > top
    /\ \E c \in DOMAIN courses : Len(courses[c]) = 2 /\ courses[c][1] = courses[c][2]

\* C7: exactly min(top, C) schedules are returned, C being the number of
\* complete states recorded.
C7_ExactlyMinTopRecorded ==
    Done => Len(returned) = Min(top, Cardinality(results))

\* Fewer complete states were recorded than top asks for, and all of them
\* were returned.
C7_Witness ==
    /\ Done
    /\ results # {}
    /\ Cardinality(results) < top
    /\ Len(returned) = Cardinality(results)

\* C8: with an empty course list the call raises nothing and returns the
\* empty list, whatever top is.
C8_NoCoursesEmptyResult ==
    Len(courses) = 0 => (pc # "error" /\ returned = << >> /\ results = {})

\* The call returned for an empty course list and the largest top.
C8_Witness ==
    /\ Done
    /\ Len(courses) = 0
    /\ top = MaxTop

HasEmptyCourse == \E c \in DOMAIN courses : courses[c] = << >>

\* C9: if some course, in any position, has no candidate section, the call
\* raises nothing, records and returns no schedule, and returns once the
\* frontier is empty.
C9_EmptyCourseEmptyResult ==
    HasEmptyCourse =>
        /\ pc # "error"
        /\ results = {}
        /\ returned = << >>
        /\ (Done => queue = {})

\* The call returned for three courses of which only the second has no
\* candidate section, after states were pushed.
C9_Witness ==
    /\ Done
    /\ Len(courses) = 3
    /\ courses[1] # << >> /\ courses[2] = << >> /\ courses[3] # << >>
    /\ visited # {}

\* C10: when every course has candidates but every combination contains a
\* time conflict, the call raises nothing and returns the empty list.
C10_AllConflictingEmptyResult ==
    (Len(courses) > 0 /\ ~HasEmptyCourse /\ Feasible = {}) =>
        (pc # "error" /\ results = {} /\ returned = << >>)

\* The call returned for two courses whose only sections occupy the
\* identical slot on the same day.
C10_Witness ==
    /\ Done
    /\ courses = << << "MockCourse1-10AM" >>, << "MockCourse1-10AM" >> >>
    /\ top >= 1

\* C11: for a single course whose only section has no meetings, exactly
\* one schedule is returned, with cost 0, no gap minutes and no meeting day.
C11_SingleOnlineCourse ==
    (Done /\ top >= 1 /\ Len(courses) = 1 /\ Len(courses[1]) = 1
          /\ SectionMeetings(courses[1][1]) = << >>) =>
        /\ Len(returned) = 1
        /\ returned[1].cost = 0
        /\ returned[1].total_gap_minutes = 0
        /\ returned[1].num_days_with_meetings = 0

\* The call returned for the single course with the single section that
\* has no meetings.
C11_Witness ==
    /\ Done
    /\ top >= 1
    /\ courses \in SingleOnline
    /\ Len(returned) = 1

\* The courses of test_optimize_schedule.
TestCourses ==
    << << "MockCourse1-10AM", "MockCourse1-2PM" >>,
       << "MockCourse2-11AM", "MockCourse2-4PM" >> >>

\* C12: for the courses of the test and top = 2, exactly two schedules are
\* returned: first 10AM with 11AM, 10 gap minutes, then, at a strictly
\* higher cost, 2PM with 4PM, 70 gap minutes.
C12_TestScenario ==
    (Done /\ courses = TestCourses /\ top = 2) =>
        /\ Len(returned) = 2
        /\ returned[1].sections = << "MockCourse1-10AM", "MockCourse2-11AM" >>
        /\ returned[1].total_gap_minutes = 10
        /\ returned[2].sections = << "MockCourse1-2PM", "MockCourse2-4PM" >>
        /\ returned[2].total_gap_minutes = 70
        /\ returned[1].cost < returned[2].cost

\* The call returned for the courses of the test and top = 2.
C12_Witness ==
    /\ Done
    /\ courses = TestCourses
    /\ top = 2
    /\ Len(returned) = 2

\* C13: every returned schedule has one section per course, in course
\* order: as many sections as courses, the i-th from the i-th course's list.
C13_OneSectionPerCourse ==
    \A k \in DOMAIN returned :
        /\ Len(returned[k].sections) = Len(courses)
        /\ \A i \in DOMAIN courses :
               \E j \in DOMAIN courses[i] : returned[k].sections[i] = courses[i][j]

\* Two schedules over three courses were returned.
C13_Witness ==
    /\ Done
    /\ Len(courses) = 3
    /\ Len(returned) = 2
    /\ returned[1].sections # returned[2].sections

\* The paths of the search tree of a list of courses: the non-empty
\* prefixes of its combinations.
Paths(cs) == { SubSeq(combo, 1, k) : combo \in Combos(cs), k \in 1..Len(cs) }

\* calculate_weight applied to the last section of p and the path before it.
WeightOf(p) == calculate_weight(SubSeq(p, 1, Len(p) - 1), p[Len(p)])

\* Some meeting of p ends exactly when another of the same day starts.
Touching(p) ==
    LET ms == MeetingsOf(p)
    IN  \E i, j \in DOMAIN ms :
            ms[i].days = ms[j].days /\ ms[i].end_time = ms[j].start_time

\* The days on which the sections of p meet.
DaysOf(p) == { MeetingsOf(p)[i].days : i \in DOMAIN MeetingsOf(p) }

\* The idle minutes of one day of a conflict-free p: from the first start
\* to the last end, less the minutes spent in meetings.
DayIdle(p, day) ==
    LET ms   == MeetingsOf(p)
        on   == { i \in DOMAIN ms : ms[i].days = day }
        from == CHOOSE t \in { ms[i].start_time : i \in on } :
                    \A i \in on : t <= ms[i].start_time
        to   == CHOOSE t \in { ms[i].end_time : i \in on } :
                    \A i \in on : t >= ms[i].end_time
    IN  (to - from) - SumOver(on, [i \in on |-> ms[i].end_time - ms[i].start_time])

\* The idle minutes of a conflict-free p over all its days.
IdleMinutes(p) == SumOver(DaysOf(p), [day \in DaysOf(p) |-> DayIdle(p, day)])

\* C14: calculate_weight reports an infinite cost exactly when two meetings
\* of the path and the new section overlap on a day; meetings that only
\* touch are feasible, and when every neighbouring pair touches the gap is 0.
C14_InfeasibleIffOverlap ==
    Done =>
        \A p \in Paths(courses) :
            /\ (WeightOf(p).cost = Inf) <=> ~ConflictFree(p)
            /\ (ConflictFree(p) /\ Touching(p) /\ IdleMinutes(p) = 0) =>
                   WeightOf(p).stats.total_gap = 0

\* A returned schedule holds two meetings that touch, and another
\* combination of the same input has overlapping meetings.
C14_Witness ==
    /\ Done
    /\ \E k \in DOMAIN returned : Touching(returned[k].sections)
    /\ Combos(courses) \ Feasible # {}

\* C15: the statistics of every state on the frontier and of every returned
\* schedule are the idle minutes between neighbouring meetings summed over
\* the days, and the number of distinct days with a meeting.
C15_StatsAreGapsAndDays ==
    /\ \A st \in queue :
           st.path # << >> =>
               /\ st.stats.total_gap = IdleMinutes(st.path)
               /\ st.stats.num_days_with_meetings = Cardinality(DaysOf(st.path))
    /\ \A k \in DOMAIN returned :
           /\ returned[k].total_gap_minutes = IdleMinutes(returned[k].sections)
           /\ returned[k].num_days_with_meetings = Cardinality(DaysOf(returned[k].sections))

\* A schedule with meetings on three days and idle minutes was returned.
C15_Witness ==
    /\ Done
    /\ \E k \in DOMAIN returned :
           /\ returned[k].num_days_with_meetings = 3
           /\ returned[k].total_gap_minutes > 0

\* C16: the search terminates: every state pushed by a step lies one
\* course further than the state popped by that step and as deep as its
\* path is long, its id was not visited before, and eventually the call
\* has returned, with the frontier empty whenever the loop was entered.
C16_SearchTerminates ==
    /\ [][\A st \in queue' \ queue :
              /\ st.course_idx = HeapMin(queue).course_idx + 1
              /\ st.course_idx = Len(st.path)
              /\ <<st.course_idx, st.path>> \notin visited
              /\ <<st.course_idx, st.path>> \in visited']_vars
    /\ <>(Done /\ (Len(courses) > 0 => queue = {}))

\* The call returned for three courses after a child whose id was already
\* visited had been refused: more tie-break numbers were drawn than states
\* were pushed.
C16_Witness ==
    /\ Done
    /\ Len(courses) = 3
    /\ queue = {}
    /\ Cardinality(visited) >= 4
    /\ counter - 1 > Cardinality(visited)

\* C17: a step that records a complete schedule leaves the loop running,
\* and when the results are returned the frontier is empty and every
\* complete state that was pushed has been popped and recorded.
C17_RecordingDoesNotEnd ==
    /\ [][results' # results => (pc' = "loop" /\ returned' = << >>)]_vars
    /\ []((Done /\ Len(courses) > 0) =>
             /\ queue = {}
             /\ \A id \in visited :
                    id[1] = Len(courses) => \E e \in results : e.result.sections = id[2])

\* With top = 1 the call returned a schedule that was recorded after a
\* dearer one: the search went on past the first complete state.
C17_Witness ==
    /\ Done
    /\ top = 1
    /\ Len(returned) = 1
    /\ \E e, f \in results :
           /\ e.counter = 0
           /\ f.counter > 0
           /\ f.cost < e.cost
           /\ returned[1] = f.result

\* C18: the search never runs while a hydration task is pending: once
\* optimize_schedule has been called, every course's task has finished.
C18_NoSearchWhilePending ==
    pc # "idle" => \A i \in DOMAIN tasks : tasks[i] # "pending"

\* A handler's search returned schedules for two courses, both hydrated by
\* tasks that ran side by side.
C18_Witness ==
    /\ entry = "api"
    /\ gpc = "returned"
    /\ Len(tasks) = 2
    /\ \A i \in DOMAIN tasks : tasks[i] = "done"
    /\ Len(returned) >= 1

\* C19: when the hydration of some course fails, the request is aborted:
\* the search is never called and nothing is returned.
C19_FailureAborts ==
    (\E i \in DOMAIN tasks : tasks[i] = "failed") =>
        (pc = "idle" /\ gpc # "returned")

\* C20: a request whose top is not positive is refused before hydration
\* and search: no hydration is started for it and the search is not called.
C20_NonPositiveTopRejected ==
    top <= 0 => (gpc \in {"request", "rejected", "constructed"} /\ pc = "idle")

\* The date lies from February 21 through September 21 of its year.
FebToSep(date) ==
    /\ date.month * 100 + date.day >= 221
    /\ date.month * 100 + date.day <= 921

\* C21: get_closest_term_id returns the next upcoming term: year Y and
\* "08" for a date from February 21 through September 21 of Y, year Y + 1
\* and "01" for a date after September 21 of Y.
C21_NextUpcomingTerm ==
    (pc = "done" /\ entry = "get_closest_term_id") =>
        /\ FebToSep(args) => outcome = Str(args.year) \o <<"0", "8">>
        /\ args.month * 100 + args.day > 921 => outcome = Str(args.year + 1) \o <<"0", "1">>

\* C22: for a fixed path, of two feasible candidates on the same days that
\* differ only in the gap they leave to the neighbouring meeting, the one
\* with the smaller gap costs no more.
C22_SmallerGapCostsNoMore ==
    (/\ pc = "done"
     /\ entry = "calculate_weight"
     /\ ConflictFree(Append(args.path, args.A))
     /\ ConflictFree(Append(args.path, args.B))
     /\ DaysOf(<<args.A>>) = DaysOf(<<args.B>>)
     /\ IdleMinutes(Append(args.path, args.A)) < IdleMinutes(Append(args.path, args.B))) =>
        outcome.A.cost <= outcome.B.cost

\* The positions of the raw list whose section satisfies every filter.
Kept(raw_sections, filters) ==
    { i \in DOMAIN raw_sections :
          \A name \in DOMAIN filters : FilterFunction(name, filters[name], raw_sections[i]) }

\* C23: filter_sections raises when the raw list is empty or no raw section
\* satisfies every filter; otherwise it returns, in input order, exactly
\* the raw sections that satisfy every filter, a list that is not empty.
C23_FilterRaisesOrKeeps ==
    (pc = "done" /\ entry = "filter_sections") =>
        LET kept == Kept(args.raw_sections, args.filters)
        IN  IF kept = {} THEN outcome.raised
            ELSE /\ ~outcome.raised
                 /\ outcome.sections # << >>
                 /\ Len(outcome.sections) = Cardinality(kept)
                 /\ \E at \in [DOMAIN outcome.sections -> kept] :
                        /\ \A i, j \in DOMAIN at : i < j => at[i] < at[j]
                        /\ \A i \in DOMAIN at : outcome.sections[i] = args.raw_sections[at[i]]

\* Of two raw sections the first was filtered out and the second returned.
C23_Witness ==
    /\ pc = "done"
    /\ entry = "filter_sections"
    /\ Len(args.raw_sections) = 2
    /\ ~outcome.raised
    /\ outcome.sections = << args.raw_sections[2] >>

\* C24: at most 10 courses reach the search on every entry path: for a
\* request with more than 10 courses no hydration is started and the
\* search is not called.
C24_AtMostTenCourses ==
    requested > MaxApiCourses =>
        (gpc \in {"request", "rejected", "constructed"} /\ pc = "idle")

\* The state the next step of the loop expands: the least of the frontier,
\* when it is incomplete.
Expanding == pc = "loop" /\ Len(courses) > 0 /\ queue # {}
             /\ HeapMin(queue).course_idx # Len(courses)

\* The sections of the course the next step tries.
Tried == courses[HeapMin(queue).course_idx + 1]

\* The child the next step forms from the j-th section tried.
ChildPath(j) == Append(HeapMin(queue).path, Tried[j])

\* The cost calculate_weight gives the j-th child.
ChildCost(j) == calculate_weight(HeapMin(queue).path, Tried[j]).cost

\* The j-th child is discarded by the bound, not by a conflict.
BoundDiscarded(j) ==
    /\ ChildCost(j) # Inf
    /\ best_complete_cost # Inf
    /\ ChildCost(j) > best_complete_cost + Milli(PRUNE_MARGIN)

\* C25: whenever a child is discarded because its cost exceeds the best
\* complete cost by more than 60, no feasible complete extension of the
\* child's path costs less than the best complete cost of that moment.
C25_BoundPruningSound ==
    Expanding =>
        \A j \in DOMAIN Tried :
            BoundDiscarded(j) =>
                \A combo \in Feasible :
                    SubSeq(combo, 1, Len(ChildPath(j))) = ChildPath(j) =>
                        TotalCost(combo) >= best_complete_cost

\* The j-th child passes the tests of line 167: its cost is finite and, once
\* a complete schedule is known, at most the best complete cost plus 60.
Passing(j) ==
    /\ ChildCost(j) # Inf
    /\ (best_complete_cost = Inf \/ ChildCost(j) <= best_complete_cost + Milli(PRUNE_MARGIN))

\* The tie-break number the j-th child draws: one for every child before
\* it that passed the tests.
ChildCounter(j) == counter + Cardinality({ i \in 1..(j - 1) : Passing(i) })

\* C26: when an incomplete state is expanded, a child is pushed exactly when
\* its cost is finite, its cost is at most the best complete cost plus 60
\* (nothing is bound-pruned before the first completion), and its state
\* identifier is not visited at that moment.
C26_PushedIffKeptAndNew ==
    [][Expanding =>
          \A j \in DOMAIN Tried :
              (\E st \in queue' : st.path = ChildPath(j) /\ st.counter = ChildCounter(j))
              <=> (/\ Passing(j)
                   /\ <<HeapMin(queue).course_idx + 1, ChildPath(j)>> \notin visited
                   /\ ~\E i \in 1..(j - 1) : Passing(i) /\ ChildPath(i) = ChildPath(j))]_vars

\* A child that costs exactly the best complete cost plus 60 was pushed,
\* and its schedule was returned.
C26_Witness ==
    /\ Done
    /\ courses \in AtTheBound
    /\ top = 2
    /\ Len(returned) = 2
    /\ returned[2].cost = returned[1].cost + Milli(PRUNE_MARGIN)

\* a comes before b in the order of (cost, insertion sequence).
LexLeq(a, b) == a.cost < b.cost \/ (a.cost = b.cost /\ a.counter <= b.counter)

\* C27: every state draws an insertion sequence number greater than those
\* of all states created before it, so no two states on the frontier and no
\* two recorded results share one, and each step pops the state that is
\* least by (cost, insertion sequence): paths and stats never decide.
C27_SequenceNumbersOrder ==
    /\ [](/\ \A s1, s2 \in queue : s1.counter = s2.counter => s1 = s2
          /\ \A st \in queue : st.counter < counter
          /\ \A e1, e2 \in results : e1.counter = e2.counter => e1 = e2
          /\ \A e \in results : e.counter < result_counter)
    /\ [][/\ counter' >= counter
          /\ \A st \in queue' \ queue : st.counter >= counter /\ st.counter < counter'
          /\ \A e \in results' \ results : e.counter = result_counter /\ result_counter' > result_counter
          /\ queue' # queue =>
                 \E popped \in queue \ queue' :
                     /\ queue \ queue' = {popped}
                     /\ \A other \in queue : LexLeq(popped, other)]_vars

\* Two states of equal cost wait on the frontier, told apart by their
\* sequence numbers only.
C27_Witness ==
    /\ pc = "loop"
    /\ \E s1, s2 \in queue :
           /\ s1.cost = s2.cost
           /\ s1.counter < s2.counter
           /\ s1.path # s2.path

\* The loop of lines 142-181 is about to pop a state.
Popping == pc = "loop" /\ ~NoCourses(courses) /\ queue # {}

\* C28: a state is popped once and never comes back to the frontier; only
\* a state that has chosen a section for every course is recorded as a
\* result, and a recorded state is not expanded.
C28_StateLifecycle ==
    /\ [](/\ \A e \in results : Len(e.result.sections) = Len(courses)
          /\ \A st \in queue : st.counter < counter)
    /\ [][Popping =>
             LET node == HeapMin(queue)
             IN  /\ node \notin queue'
                 /\ \A st \in queue' \ queue :
                        /\ st.counter >= counter
                        /\ st.course_idx = node.course_idx + 1
                        /\ node.course_idx < Len(courses)
                 /\ IF node.course_idx = Len(courses)
                    THEN /\ queue' = queue \ {node}
                         /\ visited' = visited
                         /\ counter' = counter
                         /\ \A e \in results' \ results : e.result.sections = node.path
                         /\ pc' = "loop" => Cardinality(results') = Cardinality(results) + 1
                    ELSE /\ results' = results
                         /\ best_complete_cost' = best_complete_cost]_vars

\* A complete state has been collected while other states are still open.
C28_Witness ==
    /\ pc = "loop"
    /\ results # {}
    /\ \E st \in queue : st.course_idx < Len(courses)
    /\ \E st \in queue : st.course_idx = Len(courses)

\* The id under which a state is remembered (line 177).
StateId(st) == <<st.course_idx, st.path>>

\* C29: no state id is pushed twice; a child is marked visited exactly
\* when it is pushed, and a child discarded for a conflict or by the bound
\* is not marked.
C29_VisitedExactlyWhenPushed ==
    /\ [](/\ \A st \in queue : st.course_idx > 0 => StateId(st) \in visited
          /\ \A s1, s2 \in queue : StateId(s1) = StateId(s2) => s1 = s2)
    /\ [][/\ visited \subseteq visited'
          /\ visited' \ visited = { StateId(st) : st \in queue' \ queue }
          /\ Cardinality(visited' \ visited) = Cardinality(queue' \ queue)
          /\ Expanding =>
                 \A j \in DOMAIN Tried :
                     ~Passing(j) =>
                         LET id == <<HeapMin(queue).course_idx + 1, ChildPath(j)>>
                         IN  /\ id \notin visited'
                             /\ ~\E st \in queue' : StateId(st) = id]_vars

\* The call returned after an expansion had discarded a conflicting child
\* and pushed another: the discarded one is not marked, the pushed one is.
C29_Witness ==
    /\ Done
    /\ Len(courses) = 2
    /\ \E a \in 1..Len(courses[1]) : \E b, c \in 1..Len(courses[2]) :
           /\ <<1, <<courses[1][a]>> >> \in visited
           /\ SectionsOverlap(courses[1][a], courses[2][b])
           /\ <<2, <<courses[1][a], courses[2][b]>> >> \notin visited
           /\ <<2, <<courses[1][a], courses[2][c]>> >> \in visited

\* C30: every state on the frontier has chosen one section for each of its
\* first course_idx courses, the i-th from the i-th course's list; no two
\* meetings of its sections conflict, and its stored cost is finite.
C30_FrontierWellFormed ==
    \A st \in queue :
        /\ st.course_idx \in 0..Len(courses)
        /\ Len(st.path) = st.course_idx
        /\ \A i \in DOMAIN st.path : \E k \in DOMAIN courses[i] : st.path[i] = courses[i][k]
        /\ \A i, j \in DOMAIN st.path : i < j => ~SectionsOverlap(st.path[i], st.path[j])
        /\ st.cost # Inf
        /\ st.cost >= 0

\* A state two courses deep waits on the frontier, both of its sections
\* meeting on a common day, while the second course also offered a section
\* that conflicts with its first choice.
C30_Witness ==
    /\ pc = "loop"
    /\ Len(courses) = 3
    /\ \E st \in queue :
           /\ st.course_idx = 2
           /\ \E m1 \in DOMAIN SectionMeetings(st.path[1]), m2 \in DOMAIN SectionMeetings(st.path[2]) :
                  SectionMeetings(st.path[1])[m1].days = SectionMeetings(st.path[2])[m2].days
           /\ \E k \in DOMAIN courses[2] : SectionsOverlap(st.path[1], courses[2][k])

\* The cost of a conflict-free list of sections computed from the set of
\* its meetings alone: for every day, the penalty of each positive gap
\* between a meeting and the next one of that day, plus 15 per day.
ScratchCost(p) ==
    LET ms    == MeetingsOf(p)
        pairs == { ij \in (DOMAIN ms) \X (DOMAIN ms) :
                       /\ ms[ij[1]].days = ms[ij[2]].days
                       /\ ms[ij[1]].end_time < ms[ij[2]].start_time
                       /\ ~\E k \in DOMAIN ms :
                              /\ ms[k].days = ms[ij[1]].days
                              /\ ms[ij[1]].end_time <= ms[k].start_time
                              /\ ms[k].start_time < ms[ij[2]].start_time }
    IN  SumOver(pairs, [ij \in pairs |-> GapCost(ms[ij[2]].start_time - ms[ij[1]].end_time)])
            + 15000 * Cardinality({ ms[i].days : i \in DOMAIN ms })

\* C31: the cost stored in every state of the frontier, in every recorded
\* result and in every returned schedule is the cost of its whole path
\* computed from the set of its meetings, whatever the parent's stored cost.
C31_CostRecomputedFromScratch ==
    /\ \A st \in queue : st.course_idx > 0 => st.cost = ScratchCost(st.path)
    /\ \A e \in results : e.cost = ScratchCost(e.result.sections) /\ e.result.cost = e.cost
    /\ \A k \in DOMAIN returned : returned[k].cost = ScratchCost(returned[k].sections)

\* A schedule of three sections was returned whose cost is lower than the
\* cost its parent state, two sections deep, had stored.
C31_Witness ==
    /\ Done
    /\ \E k \in DOMAIN returned :
           /\ Len(returned[k].sections) = 3
           /\ WeightOf(SubSeq(returned[k].sections, 1, 2)).cost > returned[k].cost
           /\ returned[k].num_days_with_meetings >= 1

\* The cost stored for the parent of a path of two or more sections.
ParentCost(p) == WeightOf(SubSeq(p, 1, Len(p) - 1)).cost

\* Complete states are recorded in non-decreasing order of cost.
RecordedInCostOrder ==
    \A e1, e2 \in results : e1.counter < e2.counter => e1.cost <= e2.cost

\* C32: the cost never falls along a path: every state of the frontier
\* costs at least what its parent cost, and so complete states are recorded
\* in non-decreasing order of cost, the first recorded being the cheapest.
C32_CostNonDecreasing ==
    /\ \A st \in queue : st.course_idx >= 2 => st.cost >= ParentCost(st.path)
    /\ RecordedInCostOrder

\* C33: best_complete_cost is infinite as long as nothing has been recorded
\* and is otherwise the least cost of the recorded results; no step raises it.
C33_BestIsLeastRecorded ==
    /\ [](/\ results = {} => best_complete_cost = Inf
          /\ results # {} =>
                 /\ \E e \in results : e.cost = best_complete_cost
                 /\ \A e \in results : best_complete_cost <= e.cost)
    /\ [][best_complete_cost' <= best_complete_cost]_vars

\* Three results have been recorded, the second cheaper than the first and
\* the third dearer than the second: the best cost fell once and then stayed.
C33_Witness ==
    \E e1, e2, e3 \in results :
        /\ e1.counter < e2.counter
        /\ e2.counter < e3.counter
        /\ e2.cost < e1.cost
        /\ e2.cost < e3.cost
        /\ best_complete_cost = e2.cost

\* C34: for a non-empty list of courses and top >= 1, the returned list is
\* empty exactly when no conflict-free combination of one section per
\* course exists.
C34_EmptyIffInfeasible ==
    (Done /\ top >= 1 /\ Len(courses) > 0) => (returned = << >> <=> Feasible = {})

\* The call returned a schedule although the bound had discarded feasible
\* combinations: fewer results were recorded than feasible combinations exist.
C34_Witness ==
    /\ Done
    /\ top >= 1
    /\ Len(courses) = 3
    /\ returned # << >>
    /\ Cardinality(results) < Cardinality(Feasible)

\* C35: no step of the search changes the courses' candidate lists; a step
\* leaves every other state of the frontier as it was and gives each child
\* the popped state's path followed by one section; a recorded result never
\* changes, and the schedules returned are recorded results as recorded.
C35_InputsAndResultsUnchanged ==
    [][/\ courses' = courses
       /\ \A e \in results : e \in results'
       /\ Popping =>
              /\ queue \ {HeapMin(queue)} \subseteq queue'
              /\ \A st \in queue' \ queue :
                     /\ Len(st.path) = Len(HeapMin(queue).path) + 1
                     /\ SubSeq(st.path, 1, Len(st.path) - 1) = HeapMin(queue).path
       /\ returned' # returned =>
              /\ results' = results
              /\ \A k \in DOMAIN returned' : \E e \in results : e.result = returned'[k]]_vars

\* A search over three courses of two sections each returned two of at
\* least three recorded schedules.
C35_Witness ==
    /\ Done
    /\ Len(courses) = 3
    /\ \A c \in DOMAIN courses : Len(courses[c]) = 2
    /\ Len(returned) = 2
    /\ Cardinality(results) >= 3

\* The call did not raise and found no conflict.
Weighed(w) == "cost" \in DOMAIN w /\ w.cost # Inf

\* C36: adding a section whose meetings all lack both times to a feasible
\* path raises nothing, keeps the path feasible and leaves the gap minutes
\* and the number of days with meetings as they were.
C36_TimelessMeetingNoConstraint ==
    (pc = "done" /\ entry = "add_section" /\ args.added \in Timeless /\ Weighed(outcome.before)) =>
        /\ Weighed(outcome.after)
        /\ outcome.after.stats.total_gap = outcome.before.stats.total_gap
        /\ outcome.after.stats.num_days_with_meetings = outcome.before.stats.num_days_with_meetings

\* C37: a feasible path without a positive gap between neighbouring
\* meetings of a day costs exactly 15 for each day it meets on; any other
\* feasible path costs more than that, the excess being its gap costs.
C37_DayPenaltyFifteen ==
    /\ \A st \in queue :
           st.course_idx > 0 =>
               IF IdleMinutes(st.path) = 0
               THEN st.cost = 15000 * Cardinality(DaysOf(st.path))
               ELSE st.cost > 15000 * Cardinality(DaysOf(st.path))
    /\ \A k \in DOMAIN returned :
           IF returned[k].total_gap_minutes = 0
           THEN returned[k].cost = 15000 * returned[k].num_days_with_meetings
           ELSE returned[k].cost > 15000 * returned[k].num_days_with_meetings

\* A schedule was returned that meets on two or more days, holds two
\* meetings that touch and has no gap: it costs 15 per day.
C37_Witness ==
    /\ Done
    /\ \E k \in DOMAIN returned :
           /\ returned[k].num_days_with_meetings >= 2
           /\ Touching(returned[k].sections)
           /\ returned[k].total_gap_minutes = 0
           /\ returned[k].cost = 15000 * returned[k].num_days_with_meetings

\* The generator went through hydrate_courses_async.
Async == entry \in {"api", "cli"}

\* C38: a hydration task writes its own course only: a step that changes
\* the sections or the hydrated flag of a course finishes that course's
\* task and leaves every other course as it was; and whatever the order in
\* which the tasks finish, the lists given to the search are those the site
\* gave, reversed, in the order of the request.
C38_TasksIndependent ==
    /\ [][\A i \in DOMAIN courses :
              (/\ i \in DOMAIN courses'
               /\ i \in DOMAIN course_hydrated
               /\ courses'[i] # courses[i] \/ course_hydrated'[i] # course_hydrated[i]) =>
                  /\ tasks[i] = "pending" /\ tasks'[i] = "done"
                  /\ \A j \in DOMAIN courses \ {i} :
                         /\ courses'[j] = courses[j]
                         /\ course_hydrated'[j] = course_hydrated[j]
                         /\ tasks'[j] = tasks[j]]_vars
    /\ []((Async /\ gpc \in {"ready", "searching", "returned"}) =>
              /\ Len(courses) = requested
              /\ \A i \in DOMAIN courses :
                     courses[i] = Reverse(site[i].sections) /\ courses[i] \in Scraped(i))

\* The task of the second course has finished before the task of the first.
C38_Witness ==
    /\ gpc = "hydrating"
    /\ Len(tasks) = 2
    /\ tasks[1] = "pending" /\ tasks[2] = "done"
    /\ courses[1] = << >> /\ Len(courses[2]) = 2
    /\ course_hydrated = <<FALSE, TRUE>>

\* C39: a scrape_sections that fails leaves its course as it was, not
\* hydrated and with the sections it had, and its exception reaches the
\* caller, so the generator is not hydrated; a course is hydrated only with
\* the non-empty list that passed the filters.
C39_FailedScrapeLeavesCourse ==
    /\ [][\A i \in DOMAIN tasks :
              (i \in DOMAIN tasks' /\ tasks[i] = "pending" /\ tasks'[i] = "failed") =>
                  /\ courses' = courses
                  /\ course_hydrated' = course_hydrated]_vars
    /\ [](Async =>
              \A i \in DOMAIN tasks :
                  tasks[i] = "failed" =>
                      /\ ~course_hydrated[i]
                      /\ courses[i] = << >>
                      /\ ~hydrated
                      /\ gpc \in {"hydrating", "aborted", "raised"})
    /\ [](\A i \in DOMAIN course_hydrated :
              course_hydrated[i] =>
                  /\ site[i].ok
                  /\ courses[i] # << >>
                  /\ courses[i] = Reverse(site[i].sections))

\* In a handler the first course was hydrated and the second failed: the
\* request is aborted, the second course has no sections and is not hydrated.
C39_Witness ==
    /\ entry = "api"
    /\ gpc = "aborted"
    /\ tasks = <<"done", "failed">>
    /\ course_hydrated = <<TRUE, FALSE>>
    /\ courses[1] # << >> /\ courses[2] = << >>
    /\ ~hydrated

\* C40: the generator is hydrated only if every one of its courses is.
C40_HydratedOnlyIfAllCourses ==
    hydrated => \A i \in DOMAIN course_hydrated : course_hydrated[i]

====
